---- MODULE Spec2Model ----
(***************************************************************************)
(* Model of skills/packs/skill-creator/scripts/fork_skill.py: root         *)
(* discovery, the tiered registry merge and the fork workflow of main().   *)
(*                                                                         *)
(* Paths are sequences of path components (<<>> is the filesystem root).   *)
(* The filesystem is the pair (dirs, fs): dirs is the set of plain         *)
(* directories that exist (every ancestor of a member exists too), fs maps *)
(* each existing skill content directory to what it holds.                 *)
(***************************************************************************)
EXTENDS Integers, Sequences, FiniteSets, TLC

VARIABLES
    fs,                    \* content directory path -> Content
    dirs,                  \* plain directories that exist
    config,                \* the brewva.json files: [global, project]
    pc,                    \* position of the running routine
    args,                  \* parsed command line (argparse Namespace)
    packs,                 \* load_skill_settings(): active packs
    configured_roots,      \* load_skill_settings(): skills.roots
    disabled,              \* load_skill_settings(): skills.disabled
    roots,                 \* discover_skill_roots(): List[SkillRoot]
    index_by_skill_dir,    \* discover_skill_roots(): Dict[str, int]
    regIdx,                \* registrations of discover_skill_roots() done so far
    loaded,                \* load_registry(): Dict[str, SkillEntry]
    all_entries,           \* load_registry(): List[SkillEntry]
    pending,               \* load_registry(): entries not merged yet
    source_entry,          \* main(): the resolved source SkillEntry
    destination_skill_dir, \* main(): destination directory
    source_dir_for_copy,   \* main(): directory the copy is taken from
    staged_temp_dir,       \* main(): the mkdtemp staging directory
    outcome,               \* terminal outcome reported by main()
    exit_code,             \* value returned by main() to sys.exit
    message,               \* fields of the last error message printed
    active,                \* main(): verdict of the re-verification
    fs0,                   \* filesystem content when main() started
    dirs0,                 \* plain directories when main() started
    refreshed_roots,       \* main(): the Roots rediscovered after the fork
    refreshed_loaded       \* main(): the registry rebuilt after the fork

vars == <<fs, dirs, config, pc, args, packs, configured_roots, disabled, roots,
          index_by_skill_dir, regIdx, loaded, all_entries, pending, source_entry,
          destination_skill_dir, source_dir_for_copy, staged_temp_dir,
          outcome, exit_code, message, active, fs0, dirs0,
          refreshed_roots, refreshed_loaded>>

(***************************************************************************)
(* Bounds of the model.                                                    *)
(***************************************************************************)
\* populated skill content directories in an initial filesystem
MaxEntries == 2
\* configured extra roots (skills.roots) in the root-discovery specification
MaxConfigured == 2
\* definitions in an initial filesystem of the registry specification
MaxLoadEntries == 3

(***************************************************************************)
(* Program constants.                                                      *)
(***************************************************************************)
TierNames == <<"base", "pack", "project">>

TIER_PRIORITY == [base |-> 1, pack |-> 2, project |-> 3]

TIER_DIRS == [base |-> "base", pack |-> "packs", project |-> "project"]

SOURCE_PRIORITIES ==
    [module_ancestor |-> 1, exec_ancestor |-> 2, global_root |-> 3,
     project_root |-> 4, config_root |-> 5]

MAX_ANCESTOR_DEPTH == 10

DEFAULT_PACKS == <<"typescript", "react", "bun", "skill-creator">>

(***************************************************************************)
(* The environment of one invocation: where the script, the interpreter,   *)
(* the working directory and the home configuration live.                  *)
(***************************************************************************)
\* Path(__file__).resolve().parent
MODULE_DIR == <<"repo", "skills", "packs", "skill-creator", "scripts">>
\* Path(sys.executable).resolve().parent (a virtualenv inside the checkout)
EXEC_DIR == <<"repo", ".venv", "bin">>
\* Path.cwd()
CWD == <<"repo">>
\* Path.home()
HOME == <<"home">>
\* a directory outside the checkout, used as an extra root or as --path
EXTRA == <<"extra">>
\* tempfile.gettempdir()
TMP == <<"tmp">>
\* the directory tempfile.mkdtemp(prefix="brewva-skill-fork-stage-") creates
STAGE_DIR == TMP \o <<"brewva-skill-fork-stage-">>

\* no path: an unset option, a failed resolution
NoPath == <<"?">>

(***************************************************************************)
(* Paths.                                                                  *)
(***************************************************************************)
IsPrefix(p, q) == Len(p) <= Len(q) /\ SubSeq(q, 1, Len(p)) = p

Parent(p) == IF p = <<>> THEN p ELSE SubSeq(p, 1, Len(p) - 1)

BaseName(p) == IF p = <<>> THEN "" ELSE p[Len(p)]

Reverse(s) == [i \in 1..Len(s) |-> s[Len(s) + 1 - i]]

\* sort order of the path components the model sorts (sorted() of Path objects)
NameOrder == <<"SKILL.md", "bun", "foo", "scripts", "skill-creator", "sub", "zed">>

NameRank(n) == CHOOSE i \in 1..Len(NameOrder) : NameOrder[i] = n

(***************************************************************************)
(* Filesystem queries.                                                     *)
(***************************************************************************)
Exists(p) == \E q \in dirs \cup DOMAIN fs : IsPrefix(p, q)

IsDir(p) == Exists(p)

resolve_global_brewva_root == HOME \o <<".config", "brewva">>

resolve_project_brewva_root == CWD \o <<".brewva">>

has_tier_directories(path) ==
    \/ IsDir(path \o <<"base">>)
    \/ IsDir(path \o <<"packs">>)
    \/ IsDir(path \o <<"project">>)

resolve_skill_directory(root_dir) ==
    IF has_tier_directories(root_dir) THEN root_dir
    ELSE IF has_tier_directories(root_dir \o <<"skills">>) THEN root_dir \o <<"skills">>
    ELSE NoPath

Min(a, b) == IF a < b THEN a ELSE b

\* start_dir, its parent, ... : at most MAX_ANCESTOR_DEPTH, stopping at the root
collect_bounded_ancestors(start_dir) ==
    [i \in 1..Min(MAX_ANCESTOR_DEPTH, Len(start_dir) + 1) |->
        SubSeq(start_dir, 1, Len(start_dir) + 1 - i)]

(***************************************************************************)
(* Root discovery.                                                         *)
(***************************************************************************)
SkillRoot(root_dir, skill_dir, source) ==
    [root_dir |-> root_dir, skill_dir |-> skill_dir, source |-> source]

\* a faulty variant: a duplicate of lower or equal priority replaces the stored Root
AppendDiscoveredRootNoPriority(st, root_dir, source) ==
    LET skill_dir == resolve_skill_directory(root_dir) IN
    IF skill_dir = NoPath THEN st
    ELSE IF skill_dir \in DOMAIN st.index
    THEN LET i == st.index[skill_dir]
             existing == st.roots[i]
         IN  IF SOURCE_PRIORITIES[source] <= SOURCE_PRIORITIES[existing.source]
             THEN [st EXCEPT !.roots[i] = SkillRoot(root_dir, existing.skill_dir, source)]
             ELSE st
    ELSE [roots |-> Append(st.roots, SkillRoot(root_dir, skill_dir, source)),
          index |-> st.index @@ (skill_dir :> Len(st.roots) + 1)]

\* a faulty variant: an upgraded Root is taken out and appended at the end
AppendDiscoveredRootMoved(st, root_dir, source) ==
    LET skill_dir == resolve_skill_directory(root_dir) IN
    IF skill_dir = NoPath THEN st
    ELSE IF skill_dir \in DOMAIN st.index
    THEN LET i == st.index[skill_dir]
             existing == st.roots[i]
             moved == SubSeq(st.roots, 1, i - 1)
                        \o SubSeq(st.roots, i + 1, Len(st.roots))
                        \o <<SkillRoot(root_dir, existing.skill_dir, source)>>
         IN  IF SOURCE_PRIORITIES[source] > SOURCE_PRIORITIES[existing.source]
             THEN [roots |-> moved,
                   index |-> [d \in DOMAIN st.index |->
                                CHOOSE k \in 1..Len(moved) : moved[k].skill_dir = d]]
             ELSE st
    ELSE [roots |-> Append(st.roots, SkillRoot(root_dir, skill_dir, source)),
          index |-> st.index @@ (skill_dir :> Len(st.roots) + 1)]

\* st = [roots, index]: the two collections append_discovered_root updates
append_discovered_root(st, root_dir, source) ==
    LET skill_dir == resolve_skill_directory(root_dir) IN
    IF skill_dir = NoPath THEN st
    ELSE IF skill_dir \in DOMAIN st.index
    THEN LET i == st.index[skill_dir]
             existing == st.roots[i]
         IN  IF SOURCE_PRIORITIES[source] > SOURCE_PRIORITIES[existing.source]
             THEN [st EXCEPT !.roots[i] = SkillRoot(root_dir, existing.skill_dir, source)]
             ELSE st
    ELSE [roots |-> Append(st.roots, SkillRoot(root_dir, skill_dir, source)),
          index |-> st.index @@ (skill_dir :> Len(st.roots) + 1)]

Tagged(paths, source) ==
    [i \in 1..Len(paths) |-> [root_dir |-> paths[i], source |-> source]]

\* the calls of append_discovered_root made by discover_skill_roots, in order
Registrations(configured) ==
    Tagged(Reverse(collect_bounded_ancestors(MODULE_DIR)), "module_ancestor")
    \o Tagged(Reverse(collect_bounded_ancestors(EXEC_DIR)), "exec_ancestor")
    \o Tagged(<<resolve_global_brewva_root>>, "global_root")
    \o Tagged(<<resolve_project_brewva_root>>, "project_root")
    \o Tagged(configured, "config_root")

RECURSIVE RegisterAll(_, _)
RegisterAll(st, regs) ==
    IF regs = <<>> THEN st
    ELSE RegisterAll(append_discovered_root(st, Head(regs).root_dir, Head(regs).source),
                     Tail(regs))

\* a faulty variant: the list of an earlier call is kept and appended to
DiscoverSkillRootsKept(configured) ==
    RegisterAll([roots |-> roots, index |-> <<>>], Registrations(configured)).roots

discover_skill_roots(configured) ==
    RegisterAll([roots |-> <<>>, index |-> <<>>], Registrations(configured)).roots

RECURSIVE PathLess(_, _)
\* p < q as pathlib compares paths: component by component, a proper prefix first
PathLess(p, q) ==
    IF q = <<>> THEN FALSE
    ELSE IF p = <<>> THEN TRUE
    ELSE IF Head(p) = Head(q) THEN PathLess(Tail(p), Tail(q))
    ELSE NameRank(Head(p)) < NameRank(Head(q))

RECURSIVE SortPaths(_)
SortPaths(S) ==
    IF S = {} THEN <<>>
    ELSE LET m == CHOOSE x \in S : \A y \in S \ {x} : PathLess(x, y)
         IN  <<m>> \o SortPaths(S \ {m})

(***************************************************************************)
(* Definition files.  A content directory holds                            *)
(*   md       whether it contains a SKILL.md                               *)
(*   readable whether SKILL.md decodes as UTF-8 text                       *)
(*   header   whether SKILL.md starts with a non-empty front-matter mapping*)
(*   declared the header's name ("" when the header has no usable name)    *)
(*   keys     the header's keys other than name and metadata               *)
(*   metadata the header's metadata value: "absent", "scalar" (any value   *)
(*            that is not a mapping) or "mapping"                          *)
(*   entries  the keys of a metadata mapping other than fork               *)
(*   fork     the header's metadata.fork record (NoFork when it has none)  *)
(*   body     the text after the header, named by where it was written     *)
(***************************************************************************)
NoFork == [source_name |-> "", source_tier |-> "", source_origin |-> ""]

\* a SKILL.md whose header is the mapping {name, keys..., metadata}
SkillWith(declared, body, keys, metadata, entries, fork) ==
    [md |-> TRUE, readable |-> TRUE, header |-> TRUE, declared |-> declared,
     keys |-> keys, metadata |-> metadata, entries |-> entries,
     fork |-> fork, body |-> body]

Skill(declared, body) == SkillWith(declared, body, {}, "absent", {}, NoFork)

Headerless(body) ==
    [md |-> TRUE, readable |-> TRUE, header |-> FALSE, declared |-> "",
     keys |-> {}, metadata |-> "absent", entries |-> {},
     fork |-> NoFork, body |-> body]

Undecodable(body) ==
    [md |-> TRUE, readable |-> FALSE, header |-> FALSE, declared |-> "",
     keys |-> {}, metadata |-> "absent", entries |-> {},
     fork |-> NoFork, body |-> body]

PlainDir(body) ==
    [md |-> FALSE, readable |-> FALSE, header |-> FALSE, declared |-> "",
     keys |-> {}, metadata |-> "absent", entries |-> {},
     fork |-> NoFork, body |-> body]

\* the mapping parse_frontmatter returns ({} when there is no header block) and
\* the body
parse_frontmatter(c) ==
    IF c.header
    THEN [empty |-> FALSE, name |-> c.declared, keys |-> c.keys,
          metadata |-> c.metadata, entries |-> c.entries, fork |-> c.fork,
          body |-> c.body]
    ELSE [empty |-> TRUE, name |-> "", keys |-> {}, metadata |-> "absent",
          entries |-> {}, fork |-> NoFork, body |-> c.body]

SkillEntry(name, tier, base_dir, root) ==
    [name |-> name, tier |-> tier, file_path |-> base_dir \o <<"SKILL.md">>,
     base_dir |-> base_dir, root |-> root]

NoEntry == SkillEntry("", "", NoPath, SkillRoot(NoPath, NoPath, ""))

\* SKILL.md files found by tier_dir.rglob("SKILL.md"), as their directories
SkillDirsUnder(tier_dir) == {p \in DOMAIN fs : IsPrefix(tier_dir, p) /\ fs[p].md}

load_tier_entries(tier_dir, tier, root) ==
    IF ~IsDir(tier_dir) THEN <<>>
    ELSE LET found == SortPaths(SkillDirsUnder(tier_dir))
             read == SelectSeq(found, LAMBDA p : fs[p].readable)
         IN  [i \in 1..Len(read) |->
                LET frontmatter == parse_frontmatter(fs[read[i]])
                IN  SkillEntry(IF frontmatter.name # "" THEN frontmatter.name
                               ELSE BaseName(read[i]),
                               tier, read[i], root)]

(***************************************************************************)
(* Registry builder.                                                       *)
(***************************************************************************)
Range(s) == {s[i] : i \in 1..Len(s)}

\* sorted(packs_dir.iterdir()), directories only
PackDirs(packs_dir) ==
    SortPaths({SubSeq(q, 1, Len(packs_dir) + 1) :
                 q \in {x \in dirs \cup DOMAIN fs :
                          IsPrefix(packs_dir, x) /\ Len(x) > Len(packs_dir)}})

RECURSIVE Flatten(_)
Flatten(ss) == IF ss = <<>> THEN <<>> ELSE Head(ss) \o Flatten(Tail(ss))

\* a faulty variant: the pack filter applies to every Root
IncludePackFiltered(root, pack_dir, active_pack_set) ==
    BaseName(pack_dir) \in active_pack_set

\* a faulty variant: no pack directory is ever skipped
IncludePackUnfiltered(root, pack_dir, active_pack_set) == TRUE

\* lines 288 and 293: whether the entries of pack_dir are loaded
IncludePack(root, pack_dir, active_pack_set) ==
    LET include_all_packs == root.source \in {"project_root", "config_root"}
    IN  ~(~include_all_packs /\ BaseName(pack_dir) \notin active_pack_set)

\* tier_entries of one Root: base, then the included packs, then project
TierEntries(root, active_pack_set) ==
    LET packs_dir == root.skill_dir \o <<"packs">>
        pack_dirs == IF IsDir(packs_dir) THEN PackDirs(packs_dir) ELSE <<>>
        included == SelectSeq(pack_dirs,
                              LAMBDA d : IncludePack(root, d, active_pack_set))
    IN  load_tier_entries(root.skill_dir \o <<"base">>, "base", root)
        \o Flatten([i \in 1..Len(included) |->
                      load_tier_entries(included[i], "pack", root)])
        \o load_tier_entries(root.skill_dir \o <<"project">>, "project", root)

\* every entry load_registry processes, in the order it processes them
EntrySequence(rs, active_packs) ==
    Flatten([i \in 1..Len(rs) |-> TierEntries(rs[i], Range(active_packs))])

\* a faulty variant: the entry processed last replaces the effective entry, whatever its tier
MergeEntryAlways(reg, entry) ==
    IF entry.name \notin DOMAIN reg THEN reg @@ (entry.name :> entry)
    ELSE [reg EXCEPT ![entry.name] = entry]

\* a faulty variant: only a strictly higher tier replaces the effective entry
MergeEntryStrict(reg, entry) ==
    IF entry.name \notin DOMAIN reg THEN reg @@ (entry.name :> entry)
    ELSE IF TIER_PRIORITY[entry.tier] > TIER_PRIORITY[reg[entry.name].tier]
    THEN [reg EXCEPT ![entry.name] = entry]
    ELSE reg

\* one pass of the merge loop of load_registry over `entry`
MergeEntry(reg, entry) ==
    IF entry.name \notin DOMAIN reg THEN reg @@ (entry.name :> entry)
    ELSE IF TIER_PRIORITY[entry.tier] >= TIER_PRIORITY[reg[entry.name].tier]
    THEN [reg EXCEPT ![entry.name] = entry]
    ELSE reg

RECURSIVE MergeAll(_, _)
MergeAll(reg, entries) ==
    IF entries = <<>> THEN reg
    ELSE MergeAll(MergeEntry(reg, Head(entries)), Tail(entries))

load_registry(rs, active_packs) ==
    LET entries == EntrySequence(rs, active_packs)
    IN  [loaded |-> MergeAll(<<>>, entries), all_entries |-> entries]

(***************************************************************************)
(* Settings.  A brewva.json file that read_json_file returns and whose     *)
(* "skills" value is an object is [exists, packs, roots, disabled], each   *)
(* field being the JSON value found under that key: absent, a list of      *)
(* items, or a value that is not a list.  An item is a string or a value   *)
(* of another type.  Every other file (missing, not JSON, not an object,   *)
(* empty, no "skills" object) is skipped by the loop and is NoFile.        *)
(***************************************************************************)
Absent == [kind |-> "absent", items |-> <<>>]

NotAList == [kind |-> "other", items |-> <<>>]

List(items) == [kind |-> "list", items |-> items]

Str(text) == [is_str |-> TRUE, text |-> text]

NotAString == [is_str |-> FALSE, text |-> ""]

Strs(texts) == [i \in 1..Len(texts) |-> Str(texts[i])]

\* a skills.roots string made of white space only
BlankPath == <<"  ">>

\* str.strip over the strings the settings files hold
Strip(text) ==
    CASE text = " bun " -> "bun"
      [] text = "  " -> ""
      [] OTHER -> text

\* the strings of a list, trimmed, the blank ones and the other items dropped
TrimmedStrings(items) ==
    LET kept == SelectSeq(items, LAMBDA item : item.is_str /\ Strip(item.text) # "")
    IN  [i \in 1..Len(kept) |-> Strip(kept[i].text)]

\* lines 197-205: the strings of skills.roots that are not blank, each resolved
\* to a path (a root is held as the path it resolves to)
ResolvedRoots(items) ==
    SelectSeq([i \in 1..Len(items) |-> IF items[i].is_str THEN items[i].text
                                       ELSE BlankPath],
              LAMBDA root : root # BlankPath)

normalize_string_array(value, fallback) ==
    IF value.kind # "list" THEN fallback ELSE TrimmedStrings(value.items)

NoFile == [exists |-> FALSE, packs |-> Absent, roots |-> Absent, disabled |-> Absent]

RawSettingsFile(packs_value, roots_value, disabled_value) ==
    [exists |-> TRUE, packs |-> packs_value, roots |-> roots_value,
     disabled |-> disabled_value]

\* a settings file whose fields, where present, are lists of plain strings
SettingsFile(has_packs, ps, has_roots, rs, has_disabled, ds) ==
    RawSettingsFile(IF has_packs THEN List(Strs(ps)) ELSE Absent,
                    IF has_roots THEN List(Strs(rs)) ELSE Absent,
                    IF has_disabled THEN List(Strs(ds)) ELSE Absent)

\* a faulty variant: the lists of a later file are appended to the earlier ones
ApplySettingsFileUnion(acc, file) ==
    IF ~file.exists THEN acc
    ELSE [packs |-> acc.packs \o normalize_string_array(file.packs, <<>>),
          configured_roots |-> acc.configured_roots \o ResolvedRoots(file.roots.items),
          disabled |-> acc.disabled \o normalize_string_array(file.disabled, <<>>)]

\* one pass of the loop over config_files
ApplySettingsFile(acc, file) ==
    IF ~file.exists THEN acc
    ELSE [packs |-> IF file.packs.kind # "absent"
                    THEN normalize_string_array(file.packs, acc.packs)
                    ELSE acc.packs,
          configured_roots |-> IF file.roots.kind # "absent"
                               THEN IF file.roots.kind = "list"
                                    THEN ResolvedRoots(file.roots.items)
                                    ELSE <<>>
                               ELSE acc.configured_roots,
          disabled |-> IF file.disabled.kind # "absent"
                       THEN normalize_string_array(file.disabled, acc.disabled)
                       ELSE acc.disabled]

\* the values load_skill_settings starts from
DefaultSettings ==
    [packs |-> DEFAULT_PACKS, configured_roots |-> <<>>, disabled |-> <<>>]

\* cfg holds the files at the global, the project and (for --config) the explicit
\* location; config_path is NoPath when --config is not given
load_skill_settings(cfg, config_path) ==
    IF config_path # NoPath
    THEN ApplySettingsFile(DefaultSettings, cfg.explicit)
    ELSE ApplySettingsFile(ApplySettingsFile(DefaultSettings, cfg.global),
                           cfg.project)

(***************************************************************************)
(* Initial filesystems.                                                    *)
(***************************************************************************)
\* the directories of the script, of the interpreter and of temporary files exist
InstalledDirs == {MODULE_DIR, EXEC_DIR, TMP}

RECURSIVE SeqsUpTo(_, _)
\* the sequences over S of length at most n
SeqsUpTo(S, n) ==
    IF n = 0 THEN {<<>>}
    ELSE LET shorter == SeqsUpTo(S, n - 1)
         IN  shorter \cup {Append(q, x) : q \in shorter, x \in S}

Unused ==
    /\ config = [global |-> NoFile, project |-> NoFile]
    /\ args = <<>>
    /\ packs = DEFAULT_PACKS
    /\ disabled = <<>>
    /\ loaded = <<>>
    /\ all_entries = <<>>
    /\ pending = <<>>
    /\ source_entry = NoEntry
    /\ destination_skill_dir = NoPath
    /\ source_dir_for_copy = NoPath
    /\ staged_temp_dir = NoPath
    /\ outcome = "running"
    /\ exit_code = -1
    /\ message = <<>>
    /\ active = FALSE
    /\ fs0 = fs
    /\ dirs0 = dirs
    /\ refreshed_roots = <<>>
    /\ refreshed_loaded = <<>>

(***************************************************************************)
(* SpecRoots: discover_skill_roots, one append_discovered_root call per    *)
(* step, over filesystems that differ in which directories hold a tier     *)
(* directory and over the configured extra roots.                          *)
(***************************************************************************)
\* tier directories that may exist besides the checkout's own skills/packs
OptionalTierDirs ==
    { CWD \o <<"base">>,
      resolve_global_brewva_root \o <<"skills", "base">>,
      resolve_project_brewva_root \o <<"skills", "packs">>,
      EXTRA \o <<"skills", "base">>,
      EXTRA \o <<"project">> }

\* directories a skills.roots entry may name
ConfigurableRoots ==
    { EXTRA, EXTRA \o <<"skills">>, CWD, resolve_global_brewva_root }

InitRoots ==
    /\ fs = <<>>
    /\ \E present \in SUBSET OptionalTierDirs : dirs = InstalledDirs \cup present
    /\ configured_roots \in SeqsUpTo(ConfigurableRoots, MaxConfigured)
    /\ pc = "discover"
    /\ roots = <<>>
    /\ index_by_skill_dir = <<>>
    /\ regIdx = 0
    /\ Unused

\* the next call of append_discovered_root in discover_skill_roots
RegisterRoot ==
    /\ pc = "discover"
    /\ LET regs == Registrations(configured_roots) IN
         /\ regIdx < Len(regs)
         /\ LET st == append_discovered_root(
                          [roots |-> roots, index |-> index_by_skill_dir],
                          regs[regIdx + 1].root_dir, regs[regIdx + 1].source)
            IN  /\ roots' = st.roots
                /\ index_by_skill_dir' = st.index
    /\ regIdx' = regIdx + 1
    /\ UNCHANGED <<fs, dirs, config, pc, args, packs, configured_roots, disabled,
                   loaded, all_entries, pending, source_entry, destination_skill_dir,
                   source_dir_for_copy, staged_temp_dir, outcome, exit_code,
                   message, active, fs0, dirs0,
                   refreshed_roots, refreshed_loaded>>

\* discover_skill_roots returns the list
ReturnRoots ==
    /\ pc = "discover"
    /\ regIdx = Len(Registrations(configured_roots))
    /\ pc' = "discovered"
    /\ UNCHANGED <<fs, dirs, config, args, packs, configured_roots, disabled, roots,
                   index_by_skill_dir, regIdx, loaded, all_entries, pending,
                   source_entry, destination_skill_dir, source_dir_for_copy,
                   staged_temp_dir, outcome, exit_code, message, active,
                   fs0, dirs0,
                   refreshed_roots, refreshed_loaded>>

NextRoots == RegisterRoot \/ ReturnRoots

SpecRoots == InitRoots /\ [][NextRoots]_vars

\* the registrations made so far, each with the skill_dir it resolved to
Registered ==
    LET regs == Registrations(configured_roots)
    IN  [k \in 1..regIdx |->
            [skill_dir |-> resolve_skill_directory(regs[k].root_dir),
             source |-> regs[k].source]]

\* No two Roots share a skill_dir, every registered skill_dir has a Root, and a
\* Root's provenance is the highest-priority provenance among the registrations
\* that resolved to its skill_dir.
RootsDeduplicated ==
    LET done == Registered IN
    /\ \A i, j \in 1..Len(roots) : roots[i].skill_dir = roots[j].skill_dir => i = j
    /\ \A i \in 1..Len(roots) :
        /\ \E k \in 1..regIdx :
            /\ done[k].skill_dir = roots[i].skill_dir
            /\ done[k].source = roots[i].source
        /\ \A k \in 1..regIdx :
            done[k].skill_dir = roots[i].skill_dir
                => SOURCE_PRIORITIES[done[k].source] <= SOURCE_PRIORITIES[roots[i].source]
    /\ \A k \in 1..regIdx :
        done[k].skill_dir # NoPath
            => \E i \in 1..Len(roots) : roots[i].skill_dir = done[k].skill_dir

\* A registration never changes the skill_dir of a recorded Root and never
\* removes a Root.
SkillDirNeverChanges ==
    [][/\ Len(roots') >= Len(roots)
       /\ \A i \in 1..Len(roots) : roots'[i].skill_dir = roots[i].skill_dir]_vars

\* C7: after any sequence of registrations no two Roots have the same skill_dir,
\* the skill_dir of a recorded Root never changes, and the provenance stored for a
\* Root is the highest-priority provenance among the registrations that resolved
\* to its skill_dir.
RootDiscoveryDeduplicates == []RootsDeduplicated /\ SkillDirNeverChanges

\* C7 witness: a Root whose provenance was upgraded by a duplicate registration
\* while another duplicate of lower or equal priority was dropped.
RootUpgradedWitness ==
    /\ pc = "discovered"
    /\ \E i \in 1..Len(roots) :
        /\ roots[i].source = "config_root"
        /\ Cardinality({k \in 1..regIdx :
                           Registered[k].skill_dir = roots[i].skill_dir}) >= 3

(***************************************************************************)
(* SpecLoad: discover_skill_roots, then load_registry merging one entry    *)
(* per step, over filesystems holding at most MaxLoadEntries definitions.  *)
(***************************************************************************)
REPO_SKILLS == CWD \o <<"skills">>
GLOBAL_SKILLS == resolve_global_brewva_root \o <<"skills">>
PROJECT_SKILLS == resolve_project_brewva_root \o <<"skills">>
EXTRA_SKILLS == EXTRA \o <<"skills">>

Item(skill_dir, tier, dir_name, content) ==
    [path |-> skill_dir \o <<TIER_DIRS[tier], dir_name>>, content |-> content]

\* a definition declaring `declared`, whose body is named after its place
SkillAt(skill_dir, tier, dir_name, declared) ==
    Item(skill_dir, tier, dir_name,
         Skill(declared, skill_dir \o <<TIER_DIRS[tier], dir_name>>))

\* the item moved into the subdirectory `sub` of its directory: rglob finds a
\* SKILL.md at any depth below a tier directory
Nested(item, sub) == [path |-> item.path \o <<sub>>, content |-> item.content]

\* the filesystem holding exactly `items` (one per path) and the plain dirs `extra`
FsOf(items) == [p \in {it.path : it \in items} |->
                  (CHOOSE it \in items : it.path = p).content]

DirsOf(items, extra) == InstalledDirs \cup {Parent(it.path) : it \in items} \cup extra

OnePerPath(items) == \A a, b \in items : a.path = b.path => a = b

SubsetsUpTo(S, n) == {T \in SUBSET S : Cardinality(T) <= n /\ OnePerPath(T)}

\* definitions a registry filesystem may hold
LoadItems ==
    { SkillAt(sd, t, "foo", "foo") :
        sd \in {REPO_SKILLS, GLOBAL_SKILLS, PROJECT_SKILLS, EXTRA_SKILLS},
        t \in {"base", "pack", "project"} }
    \cup { SkillAt(REPO_SKILLS, "base", "bun", "foo"),
           SkillAt(REPO_SKILLS, "pack", "bun", "foo"),
           SkillAt(PROJECT_SKILLS, "project", "zed", "foo"),
           Item(GLOBAL_SKILLS, "base", "zed",
                Headerless(GLOBAL_SKILLS \o <<"base", "zed">>)),
           Item(GLOBAL_SKILLS, "project", "foo",
                Undecodable(GLOBAL_SKILLS \o <<"project", "foo">>)) }

\* the settings files a registry run may find
LoadConfigs ==
    { [global |-> g, project |-> p] :
        g \in {NoFile, SettingsFile(FALSE, <<>>, TRUE, <<EXTRA>>, FALSE, <<>>)},
        p \in {NoFile, SettingsFile(TRUE, <<"foo">>, FALSE, <<>>, FALSE, <<>>)} }

InitLoad ==
    /\ \E items \in SubsetsUpTo(LoadItems, MaxLoadEntries) :
        /\ fs = FsOf(items)
        /\ dirs = DirsOf(items, {})
    /\ config \in LoadConfigs
    /\ pc = "start"
    /\ args = <<>>
    /\ packs = <<>>
    /\ configured_roots = <<>>
    /\ disabled = <<>>
    /\ roots = <<>>
    /\ index_by_skill_dir = <<>>
    /\ regIdx = 0
    /\ loaded = <<>>
    /\ all_entries = <<>>
    /\ pending = <<>>
    /\ source_entry = NoEntry
    /\ destination_skill_dir = NoPath
    /\ source_dir_for_copy = NoPath
    /\ staged_temp_dir = NoPath
    /\ outcome = "running"
    /\ exit_code = -1
    /\ message = <<>>
    /\ active = FALSE
    /\ fs0 = fs
    /\ dirs0 = dirs
    /\ refreshed_roots = <<>>
    /\ refreshed_loaded = <<>>

\* load_skill_settings, discover_skill_roots and the tier scans of load_registry
DiscoverAndScan ==
    /\ pc = "start"
    /\ LET settings == load_skill_settings(config, NoPath)
           rs == discover_skill_roots(settings.configured_roots)
       IN  /\ packs' = settings.packs
           /\ configured_roots' = settings.configured_roots
           /\ disabled' = settings.disabled
           /\ roots' = rs
           /\ pending' = EntrySequence(rs, settings.packs)
    /\ pc' = "merge"
    /\ UNCHANGED <<fs, dirs, config, args, index_by_skill_dir, regIdx, loaded,
                   all_entries, source_entry, destination_skill_dir,
                   source_dir_for_copy, staged_temp_dir, outcome, exit_code,
                   message, active, fs0, dirs0,
                   refreshed_roots, refreshed_loaded>>

\* one pass of load_registry's merge loop
MergeNext ==
    /\ pc = "merge"
    /\ pending # <<>>
    /\ all_entries' = Append(all_entries, Head(pending))
    /\ loaded' = MergeEntry(loaded, Head(pending))
    /\ pending' = Tail(pending)
    /\ UNCHANGED <<fs, dirs, config, pc, args, packs, configured_roots, disabled,
                   roots, index_by_skill_dir, regIdx, source_entry,
                   destination_skill_dir, source_dir_for_copy, staged_temp_dir,
                   outcome, exit_code, message, active, fs0, dirs0,
                   refreshed_roots, refreshed_loaded>>

\* load_registry returns
ReturnRegistry ==
    /\ pc = "merge"
    /\ pending = <<>>
    /\ pc' = "loaded"
    /\ UNCHANGED <<fs, dirs, config, args, packs, configured_roots, disabled, roots,
                   index_by_skill_dir, regIdx, loaded, all_entries, pending,
                   source_entry, destination_skill_dir, source_dir_for_copy,
                   staged_temp_dir, outcome, exit_code, message, active,
                   fs0, dirs0,
                   refreshed_roots, refreshed_loaded>>

\* discover_skill_roots and load_registry called once more, as main() calls them
\* again at lines 577-578, the filesystem and the settings being what they were
BuildAgain ==
    /\ pc = "loaded"
    /\ refreshed_roots' = discover_skill_roots(configured_roots)
    /\ refreshed_loaded' = load_registry(refreshed_roots', packs).loaded
    /\ pc' = "reloaded"
    /\ UNCHANGED <<fs, dirs, config, args, packs, configured_roots, disabled, roots,
                   index_by_skill_dir, regIdx, loaded, all_entries, pending,
                   source_entry, destination_skill_dir, source_dir_for_copy,
                   staged_temp_dir, outcome, exit_code, message, active,
                   fs0, dirs0>>

NextLoad == DiscoverAndScan \/ MergeNext \/ ReturnRegistry \/ BuildAgain

SpecLoad == InitLoad /\ [][NextLoad]_vars

\* position of an entry's Root in the discovery order
RootIndex(entry) == CHOOSE i \in 1..Len(roots) : roots[i].skill_dir = entry.root.skill_dir

\* C1: at every point of the merge, the effective entry of every name seen so far
\* is one of the processed entries of that name and no processed entry of that
\* name has a strictly higher tier, wherever in the order it was processed.
HighestTierWins ==
    /\ DOMAIN loaded = {all_entries[i].name : i \in 1..Len(all_entries)}
    /\ \A n \in DOMAIN loaded :
        /\ \E i \in 1..Len(all_entries) : all_entries[i] = loaded[n]
        /\ loaded[n].name = n
        /\ \A i \in 1..Len(all_entries) :
            all_entries[i].name = n
                => TIER_PRIORITY[all_entries[i].tier] <= TIER_PRIORITY[loaded[n].tier]

\* C1 witness: a Root discovered first holds the name at a higher tier than a Root
\* discovered later, and also the other way round for another pair of Roots.
HigherTierFirstWitness ==
    /\ pc = "loaded"
    /\ \E i, j \in 1..Len(all_entries) :
        /\ i < j
        /\ all_entries[i].name = all_entries[j].name
        /\ RootIndex(all_entries[i]) < RootIndex(all_entries[j])
        /\ TIER_PRIORITY[all_entries[i].tier] > TIER_PRIORITY[all_entries[j].tier]
        /\ loaded[all_entries[i].name] = all_entries[i]

\* C2: the entries are processed Root by Root in discovery order and base, pack,
\* project within a Root, and the effective entry of a name is the last processed
\* entry among those of the name's highest tier.
LastOfHighestTierWins ==
    /\ \A i, j \in 1..Len(all_entries) :
        i < j =>
            \/ RootIndex(all_entries[i]) < RootIndex(all_entries[j])
            \/ /\ RootIndex(all_entries[i]) = RootIndex(all_entries[j])
               /\ TIER_PRIORITY[all_entries[i].tier] <= TIER_PRIORITY[all_entries[j].tier]
    /\ \A n \in DOMAIN loaded :
        \E i \in 1..Len(all_entries) :
            /\ all_entries[i] = loaded[n]
            /\ \A j \in 1..Len(all_entries) :
                (j > i /\ all_entries[j].name = n)
                    => TIER_PRIORITY[all_entries[j].tier] < TIER_PRIORITY[loaded[n].tier]

\* C2 witness: two Roots hold the name at the same, highest tier and the Root
\* discovered second is effective.
EqualTierSecondRootWitness ==
    /\ pc = "loaded"
    /\ \E i, j \in 1..Len(all_entries) :
        /\ all_entries[i].name = all_entries[j].name
        /\ all_entries[i].tier = all_entries[j].tier
        /\ RootIndex(all_entries[i]) < RootIndex(all_entries[j])
        /\ loaded[all_entries[j].name] = all_entries[j]
        /\ Len(all_entries) >= 3

(***************************************************************************)
(* Filesystem updates (shutil.rmtree, Path.mkdir, shutil.copytree).        *)
(***************************************************************************)
\* other regular files that exist: the script itself
OtherFiles == {MODULE_DIR \o <<"fork_skill.py">>}

IsFile(p) ==
    \/ p \in OtherFiles
    \/ BaseName(p) = "SKILL.md" /\ Parent(p) \in DOMAIN fs /\ fs[Parent(p)].md

\* content directories left after removing the tree at p
FsWithout(f, p) == [q \in {x \in DOMAIN f : ~IsPrefix(p, x)} |-> f[q]]

\* plain directories left after removing the tree at p (its parent stays)
DirsWithout(d, p) == {x \in d : ~IsPrefix(p, x)} \cup {Parent(p)}

\* content directories after copying the tree at src (read in f) to dst
FsWithCopy(f, src, dst) ==
    LET copied == {q \in DOMAIN f : IsPrefix(src, q)}
        Target(q) == dst \o SubSeq(q, Len(src) + 1, Len(q))
    IN  [x \in DOMAIN f \cup {Target(q) : q \in copied} |->
            IF \E q \in copied : Target(q) = x
            THEN f[CHOOSE q \in copied : Target(q) = x]
            ELSE f[x]]

\* what an interrupted copytree or rmtree leaves at a directory: its SKILL.md gone
Partial(c) == PlainDir(c.body)

\* what an interrupted write_text leaves of a SKILL.md: an empty file
Truncated(c) == Headerless(<<>>)

(***************************************************************************)
(* Fork engine: source and destination resolution.                         *)
(***************************************************************************)
Msg(kind, requested, declared) ==
    [kind |-> kind, requested |-> requested, declared |-> declared]

NoMessage == Msg("", "", "")

Resolved(entry) == [status |-> "ok", entry |-> entry, error |-> NoMessage]

RuntimeError(msg) == [status |-> "RuntimeError", entry |-> NoEntry, error |-> msg]

\* an exception that is not a RuntimeError (OSError, UnicodeDecodeError)
OtherError(msg) == [status |-> "Exception", entry |-> NoEntry, error |-> msg]

TierOfParent(parent_tier) ==
    IF parent_tier = "base" THEN "base"
    ELSE IF parent_tier = "packs" THEN "pack"
    ELSE IF parent_tier = "project" THEN "project"
    ELSE "pack"

\* a faulty variant: the declared name is not compared with the requested name
ResolveExplicitSourceUnchecked(skill_name, source_path) ==
    LET candidate == source_path
        skill_md == IF IsDir(candidate) THEN candidate \o <<"SKILL.md">> ELSE candidate
        base_dir == Parent(skill_md)
    IN  IF ~IsFile(skill_md) THEN RuntimeError(Msg("source_missing", skill_name, ""))
        ELSE IF BaseName(skill_md) # "SKILL.md"
        THEN RuntimeError(Msg("source_misnamed", skill_name, ""))
        ELSE IF ~fs[base_dir].readable
        THEN OtherError(Msg("source_unreadable", skill_name, ""))
        ELSE LET frontmatter == parse_frontmatter(fs[base_dir])
                 resolved_name == IF frontmatter.name # "" THEN frontmatter.name
                                  ELSE BaseName(base_dir)
             IN  Resolved(SkillEntry(resolved_name,
                                     TierOfParent(BaseName(Parent(base_dir))), base_dir,
                                     SkillRoot(Parent(base_dir), Parent(base_dir),
                                               "explicit")))

resolve_explicit_source(skill_name, source_path) ==
    LET candidate == source_path
        skill_md == IF IsDir(candidate) THEN candidate \o <<"SKILL.md">> ELSE candidate
        base_dir == Parent(skill_md)
    IN  IF ~IsFile(skill_md) THEN RuntimeError(Msg("source_missing", skill_name, ""))
        ELSE IF BaseName(skill_md) # "SKILL.md"
        THEN RuntimeError(Msg("source_misnamed", skill_name, ""))
        ELSE IF ~fs[base_dir].readable
        THEN OtherError(Msg("source_unreadable", skill_name, ""))
        ELSE LET frontmatter == parse_frontmatter(fs[base_dir])
                 resolved_name == IF frontmatter.name # "" THEN frontmatter.name
                                  ELSE BaseName(base_dir)
             IN  IF resolved_name # skill_name
                 THEN RuntimeError(Msg("name_mismatch", skill_name, resolved_name))
                 ELSE Resolved(SkillEntry(resolved_name,
                                          TierOfParent(BaseName(Parent(base_dir))),
                                          base_dir,
                                          SkillRoot(Parent(base_dir), Parent(base_dir),
                                                    "explicit")))

\* the skill directory part of resolve_destination_skill_root's result
resolve_destination_skill_root(path_arg) ==
    IF path_arg = NoPath
    THEN IF IsDir(resolve_project_brewva_root)
         THEN resolve_project_brewva_root \o <<"skills">>
         ELSE resolve_global_brewva_root \o <<"skills">>
    ELSE LET explicit == path_arg
             resolved == resolve_skill_directory(explicit)
         IN  IF resolved # NoPath THEN resolved
             ELSE IF BaseName(explicit) = ".brewva" THEN explicit \o <<"skills">>
             ELSE IF BaseName(explicit) = "skills" THEN explicit
             ELSE explicit \o <<"skills">>

\* a faulty variant: the tier override is ignored
DestinationSkillDirSourceTier(path_arg, tier_arg, entry, skill_name) ==
    resolve_destination_skill_root(path_arg) \o <<TIER_DIRS[entry.tier], skill_name>>

\* destination_skill_dir of main(); tier_arg is "" when --tier is not given
DestinationSkillDir(path_arg, tier_arg, entry, skill_name) ==
    LET destination_tier == IF tier_arg # "" THEN tier_arg ELSE entry.tier
    IN  resolve_destination_skill_root(path_arg)
            \o <<TIER_DIRS[destination_tier], skill_name>>

(***************************************************************************)
(* Fork engine: metadata injection and re-verification.                    *)
(***************************************************************************)
ForkRecord(entry) ==
    [source_name |-> entry.name, source_tier |-> entry.tier,
     source_origin |-> entry.root.source]

\* a faulty variant: the metadata mapping is rebuilt with the fork record alone
InjectForkMetadataFresh(c, entry) ==
    IF ~c.readable THEN [status |-> "Exception", content |-> c]
    ELSE IF parse_frontmatter(c).empty THEN [status |-> "RuntimeError", content |-> c]
    ELSE [status |-> "ok",
          content |-> [c EXCEPT !.metadata = "mapping", !.entries = {},
                                !.fork = ForkRecord(entry)]]

\* inject_fork_metadata: the rewritten definition, or the exception raised.  The
\* header is parsed, a metadata value that is not a mapping is replaced by an empty
\* one, the fork record is stored in it and the header is written back with the body
inject_fork_metadata(c, entry) ==
    IF ~c.readable THEN [status |-> "Exception", content |-> c]
    ELSE LET frontmatter == parse_frontmatter(c)
             metadata == IF frontmatter.metadata = "mapping"
                         THEN frontmatter.entries ELSE {}
         IN  IF frontmatter.empty THEN [status |-> "RuntimeError", content |-> c]
             ELSE [status |-> "ok",
                   content |-> SkillWith(frontmatter.name, frontmatter.body,
                                         frontmatter.keys, "mapping", metadata,
                                         ForkRecord(entry))]

\* the outcomes of run_validation: the (valid, message) pair
ValidationResults ==
    { [valid |-> TRUE, message |-> "valid"],
      [valid |-> TRUE, message |-> "quick_validate unavailable; skipped"],
      [valid |-> FALSE, message |-> "invalid"],
      [valid |-> FALSE, message |-> "validator execution failed"] }

\* a faulty variant: the Roots discovered before the fork are used again
RefreshedRootsStale == roots

\* line 577: the Roots discovered in the current filesystem
RefreshedRoots == discover_skill_roots(configured_roots)

\* a faulty variant: the disabled names stay in the rebuilt registry
RefreshedLoadedUnfiltered == load_registry(RefreshedRoots, packs).loaded

\* lines 578-580: the registry rebuilt from them, the disabled names popped
RefreshedLoaded ==
    LET rebuilt == load_registry(RefreshedRoots, packs).loaded
    IN  [n \in DOMAIN rebuilt \ Range(disabled) |-> rebuilt[n]]

\* a faulty variant: the verdict is read from the registry built before the fork
EffectiveAfterForkStale(skill_name) ==
    IF skill_name \in DOMAIN loaded THEN loaded[skill_name] ELSE NoEntry

\* `effective` of main(): the entry of skill_name in a registry rebuilt from the
\* current filesystem, after the disabled names were popped (NoEntry for None)
EffectiveAfterFork(skill_name) ==
    IF skill_name \in DOMAIN RefreshedLoaded THEN RefreshedLoaded[skill_name]
    ELSE NoEntry

(***************************************************************************)
(* Exit statuses returned by main().                                       *)
(***************************************************************************)
EXIT_OK == 0
EXIT_ERROR == 1
EXIT_VALIDATION_FAILED == 1
EXIT_NOT_EFFECTIVE == 2

(***************************************************************************)
(* Spec: one invocation of main().  An option of the command line is drawn *)
(* when main() first reads it and kept in args from then on.  --force is   *)
(* drawn when the destination exists: when it does not, the conditions of  *)
(* lines 528, 539 and 546 are false whatever its value.                    *)
(***************************************************************************)
SkillNames == {"foo", "zed"}

\* values of --tier ("" when it is not given)
TierOptions == {"", "pack", "project"}

TargetPathOptions == {NoPath, EXTRA}

\* values of --from: none, a skill directory, the SKILL.md of one under EXTRA,
\* another file, a missing path
SourcePathOptions ==
    {NoPath} \cup DOMAIN fs
        \cup {p \o <<"SKILL.md">> : p \in {q \in DOMAIN fs : IsPrefix(EXTRA, q)}}
        \cup OtherFiles \cup {EXTRA_SKILLS \o <<"base", "missing">>}

\* what a filesystem of a fork run may hold
MainItems ==
    { SkillAt(REPO_SKILLS, "base", "foo", "foo"),
      SkillAt(REPO_SKILLS, "pack", "bun", "foo"),
      SkillAt(PROJECT_SKILLS, "base", "foo", "foo"),
      SkillAt(GLOBAL_SKILLS, "project", "foo", "foo"),
      SkillAt(GLOBAL_SKILLS, "base", "foo", "foo"),
      SkillAt(EXTRA_SKILLS, "base", "foo", "zed"),
      Item(EXTRA_SKILLS, "project", "foo",
           Headerless(EXTRA_SKILLS \o <<"project", "foo">>)),
      Item(EXTRA_SKILLS, "base", "bun",
           Undecodable(EXTRA_SKILLS \o <<"base", "bun">>)),
      Item(PROJECT_SKILLS, "project", "foo",
           PlainDir(PROJECT_SKILLS \o <<"project", "foo">>)) }

\* the settings files a fork run may find
MainConfigs ==
    { [global |-> NoFile, project |-> NoFile],
      [global |-> NoFile,
       project |-> SettingsFile(FALSE, <<>>, FALSE, <<>>, TRUE, <<"foo">>)],
      [global |-> SettingsFile(TRUE, <<"bun", "foo">>, TRUE, <<EXTRA>>, FALSE, <<>>),
       project |-> NoFile] }

Init ==
    /\ \E items \in SubsetsUpTo(MainItems, MaxEntries) :
        /\ fs = FsOf(items)
        /\ dirs = DirsOf(items, {})
    /\ config \in MainConfigs
    /\ pc = "start"
    /\ args = <<>>
    /\ packs = <<>>
    /\ configured_roots = <<>>
    /\ disabled = <<>>
    /\ roots = <<>>
    /\ index_by_skill_dir = <<>>
    /\ regIdx = 0
    /\ loaded = <<>>
    /\ all_entries = <<>>
    /\ pending = <<>>
    /\ source_entry = NoEntry
    /\ destination_skill_dir = NoPath
    /\ source_dir_for_copy = NoPath
    /\ staged_temp_dir = NoPath
    /\ outcome = "running"
    /\ exit_code = -1
    /\ message = NoMessage
    /\ active = FALSE
    /\ fs0 = fs
    /\ dirs0 = dirs
    /\ refreshed_roots = <<>>
    /\ refreshed_loaded = <<>>

loopVars == <<index_by_skill_dir, regIdx, pending>>
settingsVars == <<packs, configured_roots, disabled>>
registryVars == <<roots, loaded, all_entries>>
fsVars == <<fs, dirs>>
startVars == <<config, fs0, dirs0>>
refreshedVars == <<refreshed_roots, refreshed_loaded>>
resultVars == <<outcome, exit_code, message>>

\* main() returns `code` after printing `msg`
Return(o, code, msg) ==
    /\ pc' = "done"
    /\ outcome' = o
    /\ exit_code' = code
    /\ message' = msg

\* an exception leaves main(): the interpreter prints a traceback and exits
Escape(msg) ==
    /\ pc' = "crashed"
    /\ outcome' = "unhandled_exception"
    /\ message' = msg
    /\ UNCHANGED exit_code

\* lines 462-475: the name check, the settings, the Roots and the registry
Start ==
    /\ pc = "start"
    /\ \E name \in SkillNames \cup {""} :
        /\ args' = [skill_name |-> name, config_path |-> NoPath]
        /\ IF name = ""
           THEN /\ Return("usage_error", EXIT_ERROR, Msg("usage", name, ""))
                /\ UNCHANGED <<settingsVars, registryVars>>
           ELSE LET settings == load_skill_settings(config, args'.config_path)
                    rs == discover_skill_roots(settings.configured_roots)
                    registry == load_registry(rs, settings.packs)
                IN  /\ packs' = settings.packs
                    /\ configured_roots' = settings.configured_roots
                    /\ disabled' = settings.disabled
                    /\ roots' = rs
                    /\ loaded' = registry.loaded
                    /\ all_entries' = registry.all_entries
                    /\ pc' = "resolve_source"
                    /\ UNCHANGED resultVars
    /\ UNCHANGED <<fsVars, startVars, loopVars, refreshedVars, source_entry,
                   destination_skill_dir,
                   source_dir_for_copy, staged_temp_dir, active>>

\* lines 497-511: the source entry, from --from or from the registry
ResolveSource ==
    /\ pc = "resolve_source"
    /\ \E source_path \in SourcePathOptions :
        /\ args' = args @@ [source_path |-> source_path]
        /\ IF source_path # NoPath
           THEN LET r == resolve_explicit_source(args.skill_name, source_path)
                IN  CASE r.status = "ok" ->
                            /\ source_entry' = r.entry
                            /\ pc' = "resolve_destination"
                            /\ UNCHANGED resultVars
                      [] r.status = "RuntimeError" ->
                            /\ Return("lookup_error", EXIT_ERROR, r.error)
                            /\ UNCHANGED source_entry
                      [] r.status = "Exception" ->
                            /\ Escape(r.error)
                            /\ UNCHANGED source_entry
           ELSE IF args.skill_name \notin DOMAIN loaded
                THEN /\ Return("lookup_error", EXIT_ERROR,
                               Msg("not_found", args.skill_name, ""))
                     /\ UNCHANGED source_entry
                ELSE /\ source_entry' = loaded[args.skill_name]
                     /\ pc' = "resolve_destination"
                     /\ message' = IF args.skill_name \in Range(disabled)
                                   THEN Msg("disabled_note", args.skill_name, "")
                                   ELSE message
                     /\ UNCHANGED <<outcome, exit_code>>
    /\ UNCHANGED <<fsVars, startVars, loopVars, refreshedVars, settingsVars,
                   registryVars,
                   destination_skill_dir, source_dir_for_copy, staged_temp_dir, active>>

\* lines 513-516: the destination directory
ResolveDestination ==
    /\ pc = "resolve_destination"
    /\ \E target_path \in TargetPathOptions, tier \in TierOptions :
        /\ args' = args @@ [target_path |-> target_path, tier |-> tier]
        /\ destination_skill_dir' =
               DestinationSkillDir(target_path, tier, source_entry, args.skill_name)
    /\ pc' = "gate"
    /\ UNCHANGED <<fsVars, startVars, loopVars, refreshedVars, settingsVars,
                   registryVars, resultVars,
                   source_entry, source_dir_for_copy, staged_temp_dir, active>>

\* a faulty variant: an existing destination never stops the fork
DestinationBlockedNever(exists, force) == FALSE

\* line 528
DestinationBlocked(exists, force) == exists /\ ~force

\* a faulty variant: --dry-run does not stop the run
DryRunStopsNever(dry_run) == FALSE

\* line 533
DryRunStops(dry_run) == dry_run

\* lines 528-535: the destination-exists gate and the dry-run exit
Gate ==
    /\ pc = "gate"
    /\ \E force \in IF Exists(destination_skill_dir) THEN BOOLEAN ELSE {FALSE} :
        LET read == IF Exists(destination_skill_dir) THEN [force |-> force] ELSE <<>>
        IN  IF DestinationBlocked(Exists(destination_skill_dir), force)
            THEN /\ args' = args @@ read
                 /\ Return("destination_exists", EXIT_ERROR,
                           Msg("destination_exists", args.skill_name, ""))
            ELSE \E dry_run \in BOOLEAN :
                    /\ args' = args @@ read @@ [dry_run |-> dry_run]
                    /\ IF DryRunStops(dry_run)
                       THEN Return("dry_run", EXIT_OK, message)
                       ELSE pc' = "stage" /\ UNCHANGED resultVars
    /\ UNCHANGED <<fsVars, startVars, loopVars, refreshedVars, settingsVars,
                   registryVars,
                   source_entry, destination_skill_dir, source_dir_for_copy,
                   staged_temp_dir, active>>

\* args.force, once the run is past the gate
Force == "force" \in DOMAIN args /\ args.force

\* a faulty variant: the source is never staged
NeedsStagingNever(force, source_dir, destination) == FALSE

\* line 539: the self-overwrite guard
NeedsStaging(force, source_dir, destination) == force /\ source_dir = destination

\* lines 537-543: the staging copy of a self-overwrite; it runs outside the try
Stage ==
    /\ pc = "stage"
    /\ IF NeedsStaging(Force, source_entry.base_dir, destination_skill_dir)
       THEN LET staged_source == STAGE_DIR \o <<"source">> IN
            /\ staged_temp_dir' = STAGE_DIR
            /\ \/ /\ fs' = FsWithCopy(fs, source_entry.base_dir, staged_source)
                  /\ dirs' = dirs \cup {STAGE_DIR}
                  /\ source_dir_for_copy' = staged_source
                  /\ pc' = "remove"
                  /\ UNCHANGED resultVars
               \/ /\ \E written \in BOOLEAN :
                        fs' = IF written
                              THEN fs @@ (staged_source :>
                                            Partial(fs[source_entry.base_dir]))
                              ELSE fs
                  /\ dirs' = dirs \cup {STAGE_DIR}
                  /\ Escape(Msg("staging_copy_failed", args.skill_name, ""))
                  /\ UNCHANGED source_dir_for_copy
       ELSE /\ source_dir_for_copy' = source_entry.base_dir
            /\ pc' = "remove"
            /\ UNCHANGED <<fsVars, staged_temp_dir, resultVars>>
    /\ UNCHANGED <<startVars, loopVars, refreshedVars, settingsVars, registryVars,
                   args,
                   source_entry, destination_skill_dir, active>>

\* lines 554-556: the finally block, applied to the filesystem (f, d)
CleanedFs(f) == IF staged_temp_dir # NoPath THEN FsWithout(f, staged_temp_dir) ELSE f

CleanedDirs(d) ==
    IF staged_temp_dir # NoPath THEN DirsWithout(d, staged_temp_dir) ELSE d

\* lines 546-547 (and 551-556 when rmtree raises): removal of the old destination
Remove ==
    /\ pc = "remove"
    /\ IF Exists(destination_skill_dir) /\ Force
       THEN \/ /\ fs' = FsWithout(fs, destination_skill_dir)
               /\ dirs' = DirsWithout(dirs, destination_skill_dir)
               /\ pc' = "copy"
               /\ UNCHANGED resultVars
            \/ /\ \E removed \in BOOLEAN :
                    fs' = CleanedFs(
                            IF removed /\ destination_skill_dir \in DOMAIN fs
                            THEN [fs EXCEPT ![destination_skill_dir] = Partial(@)]
                            ELSE fs)
               /\ dirs' = CleanedDirs(dirs)
               /\ Return("copy_failed", EXIT_ERROR,
                         Msg("remove_failed", args.skill_name, ""))
       ELSE /\ pc' = "copy"
            /\ UNCHANGED <<fsVars, resultVars>>
    /\ UNCHANGED <<startVars, loopVars, refreshedVars, settingsVars, registryVars,
                   args, source_entry,
                   destination_skill_dir, source_dir_for_copy, staged_temp_dir, active>>

\* lines 549-556: mkdir of the parents, the copy and the finally block
Copy ==
    /\ pc = "copy"
    /\ LET made == dirs \cup {Parent(destination_skill_dir)} IN
       IF source_dir_for_copy \notin DOMAIN fs \/ Exists(destination_skill_dir)
       THEN /\ fs' = CleanedFs(fs)
            /\ dirs' = CleanedDirs(made)
            /\ Return("copy_failed", EXIT_ERROR,
                      Msg("copy_failed", args.skill_name, ""))
       ELSE \/ /\ fs' = CleanedFs(FsWithCopy(fs, source_dir_for_copy,
                                             destination_skill_dir))
               /\ dirs' = CleanedDirs(made)
               /\ pc' = "check"
               /\ UNCHANGED resultVars
            \/ /\ \E written \in BOOLEAN :
                    fs' = CleanedFs(
                            IF written
                            THEN fs @@ (destination_skill_dir :>
                                          Partial(fs[source_dir_for_copy]))
                            ELSE fs)
               /\ dirs' = CleanedDirs(made)
               /\ Return("copy_failed", EXIT_ERROR,
                         Msg("copy_failed", args.skill_name, ""))
    /\ UNCHANGED <<startVars, loopVars, refreshedVars, settingsVars, registryVars,
                   args, source_entry,
                   destination_skill_dir, source_dir_for_copy, staged_temp_dir, active>>

\* lines 558-561: the post-copy check of the definition file
CheckDefinition ==
    /\ pc = "check"
    /\ IF ~IsFile(destination_skill_dir \o <<"SKILL.md">>)
       THEN Return("definition_missing", EXIT_ERROR,
                   Msg("definition_missing", args.skill_name, ""))
       ELSE pc' = "inject" /\ UNCHANGED resultVars
    /\ UNCHANGED <<fsVars, startVars, loopVars, refreshedVars, settingsVars,
                   registryVars, args, source_entry, destination_skill_dir,
                   source_dir_for_copy, staged_temp_dir, active>>

\* lines 563-568: the metadata injection, unless --no-metadata
InjectMetadata ==
    /\ pc = "inject"
    /\ \E no_metadata \in BOOLEAN :
        /\ args' = args @@ [no_metadata |-> no_metadata]
        /\ IF no_metadata
           THEN pc' = "validate" /\ UNCHANGED <<fs, resultVars>>
           ELSE LET r == inject_fork_metadata(fs[destination_skill_dir],
                                              source_entry)
                IN  IF r.status = "ok"
                    THEN \/ /\ fs' = [fs EXCEPT ![destination_skill_dir] = r.content]
                            /\ pc' = "validate"
                            /\ UNCHANGED resultVars
                         \/ /\ fs' = [fs EXCEPT ![destination_skill_dir] =
                                                    Truncated(@)]
                            /\ Return("metadata_failed", EXIT_ERROR,
                                      Msg("write_failed", args.skill_name, ""))
                    ELSE /\ Return("metadata_failed", EXIT_ERROR,
                                   Msg("metadata_failed", args.skill_name, ""))
                         /\ UNCHANGED fs
    /\ UNCHANGED <<dirs, startVars, loopVars, refreshedVars, settingsVars,
                   registryVars, source_entry, destination_skill_dir,
                   source_dir_for_copy, staged_temp_dir, active>>

\* a faulty variant: a failed validation removes the destination again
ValidateRollingBack ==
    /\ pc = "validate"
    /\ \E v \in ValidationResults :
        IF v.valid
        THEN pc' = "verify" /\ UNCHANGED <<fsVars, resultVars>>
        ELSE /\ Return("validation_failed", EXIT_VALIDATION_FAILED,
                       Msg("validation_failed", args.skill_name, ""))
             /\ fs' = FsWithout(fs, destination_skill_dir)
             /\ dirs' = DirsWithout(dirs, destination_skill_dir)
    /\ UNCHANGED <<startVars, loopVars, refreshedVars, settingsVars,
                   registryVars, args,
                   source_entry, destination_skill_dir, source_dir_for_copy,
                   staged_temp_dir, active>>

\* lines 570-575: the external validator
Validate ==
    /\ pc = "validate"
    /\ \E v \in ValidationResults :
        IF v.valid
        THEN pc' = "verify" /\ UNCHANGED resultVars
        ELSE Return("validation_failed", EXIT_VALIDATION_FAILED,
                    Msg("validation_failed", args.skill_name, ""))
    /\ UNCHANGED <<fsVars, startVars, loopVars, refreshedVars, settingsVars,
                   registryVars, args,
                   source_entry, destination_skill_dir, source_dir_for_copy,
                   staged_temp_dir, active>>

\* lines 577-616: the re-verification and the final exit status
Verify ==
    /\ pc = "verify"
    /\ LET effective == EffectiveAfterFork(args.skill_name)
           is_active == effective # NoEntry
                            /\ effective.base_dir = destination_skill_dir
       IN  /\ refreshed_roots' = RefreshedRoots
           /\ refreshed_loaded' = RefreshedLoaded
           /\ active' = is_active
           /\ IF is_active
              THEN /\ Return("success", EXIT_OK, message)
                   /\ UNCHANGED args
              ELSE \E allow_inactive \in BOOLEAN :
                    /\ args' = args @@ [allow_inactive |-> allow_inactive]
                    /\ IF ~allow_inactive
                       THEN Return("not_effective", EXIT_NOT_EFFECTIVE,
                                   Msg("not_effective", args.skill_name, ""))
                       ELSE Return("success", EXIT_OK,
                                   Msg("not_effective", args.skill_name, ""))
    /\ UNCHANGED <<fsVars, startVars, loopVars, settingsVars, registryVars,
                   source_entry, destination_skill_dir, source_dir_for_copy,
                   staged_temp_dir>>

Next ==
    \/ Start
    \/ ResolveSource
    \/ ResolveDestination
    \/ Gate
    \/ Stage
    \/ Remove
    \/ Copy
    \/ CheckDefinition
    \/ InjectMetadata
    \/ Validate
    \/ Verify

Spec == Init /\ [][Next]_vars

(***************************************************************************)
(* SpecMeta: main() over definitions whose headers hold more than a name:  *)
(* other keys, a metadata mapping with entries of its own, a metadata      *)
(* value that is not a mapping, the record of an earlier fork; and over a  *)
(* definition that lies one directory below the skill directory named      *)
(* after it.                                                               *)
(***************************************************************************)
EarlierFork ==
    [source_name |-> "foo", source_tier |-> "pack", source_origin |-> "explicit"]

MetaItems ==
    { Item(REPO_SKILLS, "base", "foo",
           SkillWith("foo", REPO_SKILLS \o <<"base", "foo">>,
                     {"description"}, "mapping", {"version"}, NoFork)),
      Item(REPO_SKILLS, "base", "foo",
           SkillWith("", REPO_SKILLS \o <<"base", "foo">>,
                     {"description"}, "scalar", {}, NoFork)),
      Item(PROJECT_SKILLS, "project", "foo",
           SkillWith("foo", PROJECT_SKILLS \o <<"project", "foo">>,
                     {"license"}, "mapping", {"owner"}, EarlierFork)),
      Item(EXTRA_SKILLS, "base", "bun",
           SkillWith("foo", EXTRA_SKILLS \o <<"base", "bun">>,
                     {"description", "license"}, "absent", {}, NoFork)),
      Nested(Item(PROJECT_SKILLS, "project", "foo",
                  Skill("foo", PROJECT_SKILLS \o <<"project", "foo", "sub">>)),
             "sub") }

InitMeta ==
    /\ \E items \in SubsetsUpTo(MetaItems, MaxEntries) :
        /\ fs = FsOf(items)
        /\ dirs = DirsOf(items, {})
    /\ config = [global |-> NoFile, project |-> NoFile]
    /\ pc = "start"
    /\ args = <<>>
    /\ packs = <<>>
    /\ configured_roots = <<>>
    /\ disabled = <<>>
    /\ roots = <<>>
    /\ index_by_skill_dir = <<>>
    /\ regIdx = 0
    /\ loaded = <<>>
    /\ all_entries = <<>>
    /\ pending = <<>>
    /\ source_entry = NoEntry
    /\ destination_skill_dir = NoPath
    /\ source_dir_for_copy = NoPath
    /\ staged_temp_dir = NoPath
    /\ outcome = "running"
    /\ exit_code = -1
    /\ message = NoMessage
    /\ active = FALSE
    /\ fs0 = fs
    /\ dirs0 = dirs
    /\ refreshed_roots = <<>>
    /\ refreshed_loaded = <<>>

SpecMeta == InitMeta /\ [][Next]_vars

(***************************************************************************)
(* Properties of the fork workflow.                                        *)
(***************************************************************************)
Existed(p) == \E q \in dirs0 \cup DOMAIN fs0 : IsPrefix(p, q)

Terminated == pc \in {"done", "crashed"}

PastGate == pc \notin {"start", "resolve_source", "resolve_destination", "gate"}

\* the name a definition answers to: its declared name, else its directory's name
NameOf(c, dir) == IF c.header /\ c.declared # "" THEN c.declared ELSE BaseName(dir)

\* the run forks a skill into its own current location with --force
SelfOverwrite ==
    /\ destination_skill_dir # NoPath
    /\ source_entry.base_dir = destination_skill_dir
    /\ Force

\* equal apart from the injected metadata.fork record (and the metadata mapping
\* made to hold it)
SameApartFromFork(c, d) ==
    [c EXCEPT !.fork = NoFork, !.metadata = "mapping"]
        = [d EXCEPT !.fork = NoFork, !.metadata = "mapping"]

ExistingDestinationBlocks ==
    (destination_skill_dir # NoPath /\ pc # "gate"
        /\ Existed(destination_skill_dir) /\ ~Force) =>
        /\ pc = "done"
        /\ outcome = "destination_exists"
        /\ exit_code = EXIT_ERROR
        /\ fs = fs0
        /\ dirs = dirs0
        /\ staged_temp_dir = NoPath

\* C4 witness: the destination-exists failure over a destination holding a skill.
ExistingDestinationWitness ==
    /\ pc = "done"
    /\ outcome = "destination_exists"
    /\ destination_skill_dir \in DOMAIN fs
    /\ ~args.force

\* C5: a run that ended with a lookup error wrote nothing, and a name mismatch
\* reports the requested and the declared name; a run goes past source resolution
\* only with a source entry, and a source entry exists, is a SKILL.md and answers
\* to the requested name (so every lookup error stops the run there).
LookupErrorsWriteNothing ==
    /\ outcome = "lookup_error" =>
        /\ pc = "done"
        /\ exit_code = EXIT_ERROR
        /\ fs = fs0
        /\ dirs = dirs0
        /\ message.kind = "name_mismatch" =>
            LET given == args.source_path
                dir == IF given \in DOMAIN fs0 THEN given ELSE Parent(given)
            IN  /\ message.requested = args.skill_name
                /\ message.declared = NameOf(fs0[dir], dir)
                /\ message.declared # message.requested
    /\ pc \notin {"start", "resolve_source", "done", "crashed"} => source_entry # NoEntry
    /\ source_entry # NoEntry =>
        /\ source_entry.name = args.skill_name
        /\ source_entry.base_dir \in DOMAIN fs0
        /\ fs0[source_entry.base_dir].md
        /\ NameOf(fs0[source_entry.base_dir], source_entry.base_dir) = args.skill_name
        /\ IF args.source_path = NoPath
           THEN /\ args.skill_name \in DOMAIN loaded
                /\ source_entry = loaded[args.skill_name]
           ELSE args.source_path \in {source_entry.base_dir,
                                      source_entry.file_path}

\* C5 witness: Scenario D, the request for foo by an explicit source declaring zed.
NameMismatchWitness ==
    /\ pc = "done"
    /\ outcome = "lookup_error"
    /\ message = Msg("name_mismatch", "foo", "zed")
    /\ args.source_path # NoPath

\* C6: a run that reached the re-verification reports the fork active exactly when
\* the registry rebuilt from the filesystem as it is now, less the disabled names,
\* has the forked name with the destination as its content directory; an inactive
\* fork is the not-effective failure exactly when --allow-inactive was not given.
ActiveIffEffective ==
    (pc = "done" /\ outcome \in {"success", "not_effective"}) =>
        LET rebuilt == load_registry(discover_skill_roots(configured_roots),
                                     packs).loaded
            effective ==
                /\ args.skill_name \in DOMAIN rebuilt
                /\ args.skill_name \notin Range(disabled)
                /\ rebuilt[args.skill_name].base_dir = destination_skill_dir
        IN  /\ active <=> effective
            /\ active => (outcome = "success" /\ exit_code = EXIT_OK)
            /\ ~active =>
                /\ outcome = "not_effective" <=> ~args.allow_inactive
                /\ outcome = "not_effective" => exit_code = EXIT_NOT_EFFECTIVE
                /\ outcome = "success" => exit_code = EXIT_OK

\* C6 witness: Scenario E, a fork written under the project root that an entry of
\* another Root still outranks, so that the run fails as not effective.
ShadowedForkWitness ==
    /\ pc = "done"
    /\ outcome = "not_effective"
    /\ IsPrefix(PROJECT_SKILLS, destination_skill_dir)
    /\ destination_skill_dir \in DOMAIN fs
    /\ args.skill_name \notin Range(disabled)
    /\ ~active

\* the four outcomes the exit status has to tell apart
OutcomeClass(o) ==
    CASE o \in {"success", "dry_run"} -> "success"
      [] o \in {"usage_error", "lookup_error"} -> "error"
      [] o = "validation_failed" -> "validation_failed"
      [] o = "not_effective" -> "not_effective"
      [] OTHER -> "other"

StatusOf ==
    [success |-> EXIT_OK, error |-> EXIT_ERROR,
     validation_failed |-> EXIT_VALIDATION_FAILED,
     not_effective |-> EXIT_NOT_EFFECTIVE]

\* C8: the exit status of a run that ended in one of the four outcomes (success,
\* usage/lookup/mismatch error, validation failure, not effective) is not the
\* status main() returns for any of the other three.
ExitStatusTellsOutcome ==
    (pc = "done" /\ OutcomeClass(outcome) # "other") =>
        \A c \in DOMAIN StatusOf :
            c # OutcomeClass(outcome) => exit_code # StatusOf[c]

\* C9: no failure leaves main() as an unhandled exception: every run that stops
\* has returned an outcome and an exit status.
EveryFailureReported ==
    pc # "crashed" /\ (outcome # "running" => (pc = "done" /\ exit_code >= 0))

\* C10: when the run stops, a staging directory it created no longer exists.
StagingDirRemoved ==
    (Terminated /\ staged_temp_dir # NoPath) => ~Exists(staged_temp_dir)

\* the run wrote a fork, injected the metadata and ended successfully
ForkedWithMetadata ==
    /\ outcome = "success"
    /\ "no_metadata" \in DOMAIN args
    /\ ~args.no_metadata

LoadedFrom(p, tier, r) ==
    \E i \in 1..Len(all_entries) :
        /\ all_entries[i].base_dir = p
        /\ all_entries[i].tier = tier
        /\ all_entries[i].root = r

\* the readable definitions on disk
ReadableDefinitions == {p \in DOMAIN fs : fs[p].md /\ fs[p].readable}

\* C12: once the registry is built, a definition in a pack subdirectory of a Root is
\* among the loaded entries if and only if the pack's directory name is an active
\* pack or the Root's provenance is project_root or config_root; the definitions
\* under the base and the project tier of every Root are always loaded.
PackFilterDecidesLoading ==
    pc = "loaded" =>
        \A i \in 1..Len(roots) : \A p \in ReadableDefinitions :
            LET r == roots[i]
                packs_dir == r.skill_dir \o <<"packs">>
            IN  /\ IsPrefix(r.skill_dir \o <<"base">>, p) => LoadedFrom(p, "base", r)
                /\ IsPrefix(r.skill_dir \o <<"project">>, p)
                       => LoadedFrom(p, "project", r)
                /\ (IsPrefix(packs_dir, p) /\ Len(p) > Len(packs_dir)) =>
                       (LoadedFrom(p, "pack", r)
                           <=> \/ p[Len(packs_dir) + 1] \in Range(packs)
                               \/ r.source \in {"project_root", "config_root"})

\* the same inactive pack exists under a Root whose packs are filtered and under a
\* Root whose packs are all included
PackFilterWitness ==
    /\ pc = "loaded"
    /\ \E i, j \in 1..Len(roots) : \E p, q \in ReadableDefinitions :
        /\ roots[i].source \notin {"project_root", "config_root"}
        /\ roots[j].source \in {"project_root", "config_root"}
        /\ IsPrefix(roots[i].skill_dir \o <<"packs">>, p)
        /\ IsPrefix(roots[j].skill_dir \o <<"packs">>, q)
        /\ p[Len(roots[i].skill_dir) + 2] = q[Len(roots[j].skill_dir) + 2]
        /\ p[Len(roots[i].skill_dir) + 2] \notin Range(packs)
        /\ ~LoadedFrom(p, "pack", roots[i])
        /\ LoadedFrom(q, "pack", roots[j])

CONFIG_PATH == EXTRA \o <<"brewva.json">>

SettingsFiles ==
    { NoFile,
      SettingsFile(TRUE, <<"bun", "react">>, TRUE, <<EXTRA>>, TRUE, <<"foo">>),
      SettingsFile(TRUE, <<"foo">>, FALSE, <<>>, TRUE, <<"zed">>),
      SettingsFile(FALSE, <<>>, TRUE, <<CWD>>, FALSE, <<>>),
      SettingsFile(TRUE, <<>>, TRUE, <<>>, TRUE, <<>>),
      RawSettingsFile(NotAList, NotAList, NotAList),
      RawSettingsFile(List(<<Str(" bun "), NotAString, Str("  "), Str("zed")>>),
                      List(<<NotAString, Str(BlankPath), Str(EXTRA)>>),
                      Absent) }

InitSettings ==
    /\ fs = <<>>
    /\ dirs = InstalledDirs
    /\ \E g, p, e \in SettingsFiles :
        config = [global |-> g, project |-> p, explicit |-> e]
    /\ pc = "start"
    /\ args = <<>>
    /\ packs = <<>>
    /\ configured_roots = <<>>
    /\ disabled = <<>>
    /\ roots = <<>>
    /\ index_by_skill_dir = <<>>
    /\ regIdx = 0
    /\ loaded = <<>>
    /\ all_entries = <<>>
    /\ pending = <<>>
    /\ source_entry = NoEntry
    /\ destination_skill_dir = NoPath
    /\ source_dir_for_copy = NoPath
    /\ staged_temp_dir = NoPath
    /\ outcome = "running"
    /\ exit_code = -1
    /\ message = NoMessage
    /\ active = FALSE
    /\ fs0 = fs
    /\ dirs0 = dirs
    /\ refreshed_roots = <<>>
    /\ refreshed_loaded = <<>>

\* line 472: load_skill_settings(cwd, args.config_path)
LoadSettings ==
    /\ pc = "start"
    /\ \E config_path \in {NoPath, CONFIG_PATH} :
        LET settings == load_skill_settings(config, config_path)
        IN  /\ args' = [config_path |-> config_path]
            /\ packs' = settings.packs
            /\ configured_roots' = settings.configured_roots
            /\ disabled' = settings.disabled
    /\ pc' = "settings_loaded"
    /\ UNCHANGED <<fsVars, startVars, loopVars, refreshedVars, registryVars,
                   resultVars, source_entry, destination_skill_dir,
                   source_dir_for_copy, staged_temp_dir, active>>

NextSettings == LoadSettings

SpecSettings == InitSettings /\ [][NextSettings]_vars

\* the settings in force, as a record
LoadedSettings ==
    [packs |-> packs, configured_roots |-> configured_roots, disabled |-> disabled]

\* what the files of `cfg` give when only the default locations are read
FromDefaultLocations(cfg) == load_skill_settings(cfg, NoPath)

FieldOfFile == [packs |-> "packs", configured_roots |-> "roots", disabled |-> "disabled"]

\* C14 as stated: without --config, a field present in the project file's skills
\* object makes the loaded value independent of the global file, and a field absent
\* from it leaves the value the global file alone gives; with --config the loaded
\* settings depend on the explicit file only.
SettingsFieldsReplace ==
    pc = "settings_loaded" =>
        IF args.config_path # NoPath
        THEN LoadedSettings = ApplySettingsFile(DefaultSettings, config.explicit)
        ELSE \A f \in DOMAIN FieldOfFile :
                IF config.project.exists /\ config.project[FieldOfFile[f]].kind # "absent"
                THEN LoadedSettings[f]
                        = FromDefaultLocations([config EXCEPT !.global = NoFile])[f]
                ELSE LoadedSettings[f]
                        = FromDefaultLocations([config EXCEPT !.project = NoFile])[f]

\* C14 as amended: without --config, a field the project file gives as a list
\* replaces the value obtained from the global file by the list's non-blank strings
\* (no union); a packs or disabled field that is present but not a list keeps the
\* value obtained from the global file, a roots field that is present but not a list
\* gives no roots; an absent field keeps the global value.  With --config the
\* explicit file is the only file read.
SettingsListsReplace ==
    pc = "settings_loaded" =>
        IF args.config_path # NoPath
        THEN LoadedSettings = ApplySettingsFile(DefaultSettings, config.explicit)
        ELSE LET project == config.project
                 global_only == FromDefaultLocations([config EXCEPT !.project = NoFile])
             IN  /\ packs = IF project.packs.kind = "list"
                            THEN TrimmedStrings(project.packs.items)
                            ELSE global_only.packs
                 /\ disabled = IF project.disabled.kind = "list"
                               THEN TrimmedStrings(project.disabled.items)
                               ELSE global_only.disabled
                 /\ configured_roots =
                        CASE project.roots.kind = "list" ->
                                ResolvedRoots(project.roots.items)
                          [] project.roots.kind = "other" -> <<>>
                          [] OTHER -> global_only.configured_roots

\* both files give packs as different lists and the project's list is in force
\* alone, while roots, absent from the project file, come from the global file
SettingsReplaceWitness ==
    /\ pc = "settings_loaded"
    /\ args.config_path = NoPath
    /\ config.global.packs.kind = "list"
    /\ config.project.packs.kind = "list"
    /\ TrimmedStrings(config.global.packs.items) = <<"bun", "react">>
    /\ packs = <<"foo">>
    /\ config.project.roots.kind = "absent"
    /\ configured_roots = <<EXTRA>>

\* C15: the destination is <resolved skill directory>/<tier directory>/<name>, the
\* tier being --tier when it is given and the source entry's tier otherwise; when
\* --path is not given the resolved skill directory is the project-local skills
\* directory if the project-local root existed when the run started, and the global
\* skills directory otherwise; with --path it is that path or its skills
\* subdirectory.
DestinationAsResolved ==
    destination_skill_dir # NoPath =>
        LET tier == IF args.tier # "" THEN args.tier ELSE source_entry.tier
            rest == <<TIER_DIRS[tier], args.skill_name>>
        IN  IF args.target_path = NoPath
            THEN destination_skill_dir
                    = (IF Existed(resolve_project_brewva_root)
                       THEN resolve_project_brewva_root \o <<"skills">>
                       ELSE resolve_global_brewva_root \o <<"skills">>) \o rest
            ELSE destination_skill_dir
                    \in {args.target_path \o rest,
                         args.target_path \o <<"skills">> \o rest}

\* no --path and no project-local root: the destination is under the global skills
\* directory, in the tier given by --tier, which is not the source's tier
DestinationWitness ==
    /\ destination_skill_dir # NoPath
    /\ args.target_path = NoPath
    /\ ~Existed(resolve_project_brewva_root)
    /\ args.tier = "project"
    /\ source_entry.tier = "base"
    /\ destination_skill_dir
           = resolve_global_brewva_root \o <<"skills", "project", args.skill_name>>

\* --dry-run was given (the option is read once the destination-exists gate passed)
DryRunRequested == "dry_run" \in DOMAIN args /\ args.dry_run

\* C16: a run with --dry-run whose source resolved and whose destination passed the
\* destination-exists gate ends successfully at once and has written nothing: the
\* filesystem is the initial one and no staging directory was made.
DryRunWritesNothing ==
    DryRunRequested =>
        /\ pc = "done"
        /\ outcome = "dry_run"
        /\ exit_code = EXIT_OK
        /\ fs = fs0
        /\ dirs = dirs0
        /\ staged_temp_dir = NoPath
        /\ source_dir_for_copy = NoPath

\* a dry run of a forced fork of a skill onto itself: without --dry-run the
\* destination would have been staged, removed and copied
DryRunWitness ==
    /\ DryRunRequested
    /\ outcome = "dry_run"
    /\ Force
    /\ Exists(destination_skill_dir)
    /\ source_entry.base_dir = destination_skill_dir

\* the requested name is listed in skills.disabled
DisabledRequested ==
    /\ "skill_name" \in DOMAIN args
    /\ args.skill_name \in Range(disabled)

\* C17: a disabled name does not block the fork: when the registry defines it,
\* implicit source resolution takes its effective entry and only prints a note; and
\* a fork of a disabled name that reaches the re-verification is never reported
\* active: it ends in the not-effective outcome unless --allow-inactive was given,
\* and then in success.
DisabledForkNeverActive ==
    DisabledRequested =>
        /\ ("source_path" \in DOMAIN args /\ args.source_path = NoPath
                /\ args.skill_name \in DOMAIN loaded) =>
            /\ outcome # "lookup_error"
            /\ source_entry = loaded[args.skill_name]
            /\ pc = "resolve_destination" => message.kind = "disabled_note"
        /\ ~active
        /\ outcome # "success" \/ message.kind = "not_effective"
        /\ (pc = "done" /\ outcome \in {"success", "not_effective"}) =>
            /\ "allow_inactive" \in DOMAIN args
            /\ outcome = "not_effective" <=> ~args.allow_inactive
            /\ exit_code = IF args.allow_inactive THEN EXIT_OK ELSE EXIT_NOT_EFFECTIVE

\* a disabled name was forked to a place where the rebuilt registry, before the
\* disabled names are removed, has the fork as the effective entry: the run ends
\* not effective
DisabledForkWitness ==
    /\ DisabledRequested
    /\ outcome = "not_effective"
    /\ args.source_path = NoPath
    /\ LET rebuilt == load_registry(RefreshedRoots, packs).loaded
       IN  /\ args.skill_name \in DOMAIN rebuilt
           /\ rebuilt[args.skill_name].base_dir = destination_skill_dir

\* the materialization steps, in the order of main()
StepOrder == <<"copy", "check", "inject", "validate", "verify">>

StepIndex(step) == CHOOSE i \in 1..Len(StepOrder) : StepOrder[i] = step

\* a step hands over to the step after it or ends the run; a step other than the
\* last that ends the run has failed, and a failed check, injection or validation
\* removes nothing
HardGateStep ==
    (pc \in Range(StepOrder) /\ pc' # pc) =>
        \/ /\ StepIndex(pc) < Len(StepOrder)
           /\ pc' = StepOrder[StepIndex(pc) + 1]
           /\ outcome' = "running"
        \/ /\ pc' = "done"
           /\ pc # "verify" => (outcome' # "success" /\ exit_code' # EXIT_OK)
           /\ pc \in {"check", "inject", "validate"} =>
                /\ dirs' = dirs
                /\ DOMAIN fs' = DOMAIN fs
                /\ message'.kind # "write_failed" => fs' = fs

\* the run failed after the copy
FailedAfterCopy == outcome \in {"definition_missing", "metadata_failed", "validation_failed"}

\* a failure after the copy leaves the written destination on disk
NoRollback ==
    FailedAfterCopy =>
        /\ pc = "done"
        /\ exit_code # EXIT_OK
        /\ destination_skill_dir \in DOMAIN fs
        /\ outcome = "validation_failed" =>
            SameApartFromFork(fs[destination_skill_dir], fs0[source_entry.base_dir])

\* C18: the steps run in the order copy, definition-file check, metadata injection,
\* validation, re-verification, each only after the one before it succeeded; a
\* failure of the check, the injection or the validation ends the run with a failure
\* status and leaves the destination that was written on disk.
StepsAreHardGates == []NoRollback /\ [][HardGateStep]_vars

\* a fork into a place that did not exist was copied and given its metadata, then
\* failed validation: the destination is still there
NoRollbackWitness ==
    /\ outcome = "validation_failed"
    /\ ~Existed(destination_skill_dir)
    /\ destination_skill_dir \in DOMAIN fs
    /\ fs[destination_skill_dir].fork # NoFork

\* the run removes an existing destination that holds the source content
\* directory: the source is the destination itself or lies inside it
RemovalDeletesSource ==
    /\ pc \in {"remove", "copy", "check", "inject", "validate", "verify",
               "done", "crashed"}
    /\ Force
    /\ Existed(destination_skill_dir)
    /\ IsPrefix(destination_skill_dir, source_entry.base_dir)

\* the source content is still on disk, at the source or at the destination
SourceContentKept ==
    \E p \in {source_entry.base_dir, destination_skill_dir} :
        /\ p \in DOMAIN fs
        /\ SameApartFromFork(fs[p], fs0[source_entry.base_dir])

\* C19: in every forced run whose removal of the existing destination deletes
\* the source content directory (the source is the destination or lies inside
\* it), the copy is taken from a copy staged before the removal, and the source
\* content exists at the source or at the destination in every terminal outcome.
ForcedForkNeverDestroysSource ==
    RemovalDeletesSource =>
        /\ pc \in {"remove", "copy"} =>
              /\ staged_temp_dir # NoPath
              /\ source_dir_for_copy = staged_temp_dir \o <<"source">>
        /\ Terminated => SourceContentKept

\* the re-verification of lines 577-583 has run
Reverified == pc = "done" /\ outcome \in {"success", "not_effective"}

\* the locations discovery looks at besides the ancestors of the installation
ConsideredLocations ==
    {resolve_global_brewva_root, resolve_project_brewva_root}
        \cup Range(configured_roots)

HadTierDirectories(path) ==
    \/ Existed(path \o <<"base">>)
    \/ Existed(path \o <<"packs">>)
    \/ Existed(path \o <<"project">>)

\* the location had no tier subdirectory before the fork, and the fork made one
BecameRoot(location) ==
    /\ ~HadTierDirectories(location)
    /\ ~HadTierDirectories(location \o <<"skills">>)
    /\ resolve_skill_directory(location) # NoPath
    /\ IsPrefix(resolve_skill_directory(location), destination_skill_dir)

IsRefreshedRoot(skill_dir) ==
    \E i \in DOMAIN refreshed_roots : refreshed_roots[i].skill_dir = skill_dir

\* the forked definition is among the entries the rebuilt registry merges
ForkedEntryIsCandidate ==
    LET entries == load_registry(refreshed_roots, packs).all_entries
    IN  \E i \in DOMAIN entries : entries[i].base_dir = destination_skill_dir

\* the fork is outside the packs tier, or its Root is a project or configured
\* Root of the re-verification, or the skill name is an active pack
PackFilterAdmitsFork ==
    \/ BaseName(Parent(destination_skill_dir)) # TIER_DIRS["pack"]
    \/ \E i \in DOMAIN refreshed_roots :
          /\ refreshed_roots[i].skill_dir = Parent(Parent(destination_skill_dir))
          /\ refreshed_roots[i].source \in {"project_root", "config_root"}
    \/ BaseName(destination_skill_dir) \in Range(packs)

\* C20 as stated: the re-verification uses the Roots of the filesystem as the
\* fork left it: a global, project-local or configured location without a tier
\* subdirectory before the fork, under which the fork created one, is a Root of
\* the re-verification, and the forked entry is a candidate for the effective
\* entry.
NewRootMakesForkCandidate ==
    Reverified =>
        /\ refreshed_roots = discover_skill_roots(configured_roots)
        /\ \A location \in ConsideredLocations :
              BecameRoot(location) =>
                  /\ IsRefreshedRoot(resolve_skill_directory(location))
                  /\ ForkedEntryIsCandidate

\* C20, amended: the same, the forked entry being a candidate whenever the pack
\* filter admits it; a fork at the packs tier of a Root that is neither a
\* project nor a configured Root, under a name that is not an active pack, is
\* not scanned.
VerdictFromFilesystemAfterFork ==
    Reverified =>
        /\ refreshed_roots = discover_skill_roots(configured_roots)
        /\ \A location \in ConsideredLocations :
              BecameRoot(location) =>
                  /\ IsRefreshedRoot(resolve_skill_directory(location))
                  /\ (ForkedEntryIsCandidate <=> PackFilterAdmitsFork)

VerdictAfterForkWitness ==
    /\ Reverified
    /\ active
    /\ \E location \in ConsideredLocations : BecameRoot(location)

\* the registration the next RegisterRoot step makes
NextRegistration == Registrations(configured_roots)[regIdx + 1]

\* the position of the Root with this skill_dir, 0 when there is none
PositionOf(skill_dir) ==
    IF \E i \in 1..Len(roots) : roots[i].skill_dir = skill_dir
    THEN CHOOSE i \in 1..Len(roots) : roots[i].skill_dir = skill_dir
    ELSE 0

\* the first of the registrations `done` that resolved to this skill_dir
FirstRegistrationOf(done, skill_dir) ==
    CHOOSE k \in 1..Len(done) :
        /\ done[k].skill_dir = skill_dir
        /\ \A j \in 1..(k - 1) : done[j].skill_dir # skill_dir

\* a duplicate registration leaves the list as long as it was and every Root
\* where it was; one of higher priority rewrites the root_dir and the provenance
\* of its Root and nothing else, any other changes nothing
DuplicateUpgradesInPlace ==
    (pc = "discover" /\ regIdx' = regIdx + 1) =>
        LET reg == NextRegistration
            i == PositionOf(resolve_skill_directory(reg.root_dir))
        IN  i # 0 =>
              /\ Len(roots') = Len(roots)
              /\ \A j \in 1..Len(roots) : j # i => roots'[j] = roots[j]
              /\ roots'[i].skill_dir = roots[i].skill_dir
              /\ IF SOURCE_PRIORITIES[reg.source] > SOURCE_PRIORITIES[roots[i].source]
                 THEN /\ roots'[i].source = reg.source
                      /\ roots'[i].root_dir = reg.root_dir
                 ELSE roots'[i] = roots[i]

\* the Roots stand in the order in which their skill_dirs were first registered
RootsInFirstRegistrationOrder ==
    LET done == Registered IN
    /\ Len(roots) = Cardinality({done[k].skill_dir : k \in 1..regIdx} \ {NoPath})
    /\ \A i \in 1..(Len(roots) - 1) :
          FirstRegistrationOf(done, roots[i].skill_dir)
              < FirstRegistrationOf(done, roots[i + 1].skill_dir)

\* C21: a duplicate skill_dir registered with a higher-priority provenance
\* replaces only the provenance and the root_dir of the existing Root, in place:
\* the number of Roots and the position of every Root are unchanged, so the Roots
\* are merged into the registry in the order of first registration of each
\* skill_dir.
UpgradeKeepsDiscoveryOrder ==
    []RootsInFirstRegistrationOrder /\ [][DuplicateUpgradesInPlace]_vars

\* C21 witness: a Root that is not the last one carries a provenance other than
\* the one it was first registered with
UpgradedInPlaceWitness ==
    /\ pc = "discovered"
    /\ LET done == Registered IN
       \E i \in 1..(Len(roots) - 1) :
          roots[i].source
              # done[FirstRegistrationOf(done, roots[i].skill_dir)].source

\* the fork was written at the pack tier: <skill_dir>/packs/<name>
ForkedAtPackTier ==
    /\ destination_skill_dir # NoPath
    /\ BaseName(Parent(destination_skill_dir)) = TIER_DIRS["pack"]
    /\ BaseName(destination_skill_dir) = args.skill_name

\* the Root of the re-verification that holds the destination is a project or a
\* configured Root
DestinationRootIncludesAllPacks ==
    \E i \in DOMAIN refreshed_roots :
        /\ refreshed_roots[i].skill_dir = Parent(Parent(destination_skill_dir))
        /\ refreshed_roots[i].source \in {"project_root", "config_root"}

ReportedNotEffective ==
    /\ ~active
    /\ message.kind = "not_effective"
    /\ outcome = "not_effective" <=> ~args.allow_inactive

\* C22: a fork written at the pack tier lands in <skill_dir>/packs/<name>; when
\* the destination's Root in the re-verification is neither a project nor a
\* configured Root, the forked entry is loaded, and the fork reported active,
\* only if the skill name is an active pack; otherwise the fork is reported not
\* effective.
PackTierForkNeedsActivePack ==
    (Reverified /\ ForkedAtPackTier /\ ~DestinationRootIncludesAllPacks) =>
        /\ ForkedEntryIsCandidate => args.skill_name \in Range(packs)
        /\ active => args.skill_name \in Range(packs)
        /\ args.skill_name \notin Range(packs) => ReportedNotEffective

\* C22 witness: a pack-tier fork under a Root that filters its packs is reported
\* active, its name being an active pack
PackTierForkWitness ==
    /\ Reverified
    /\ ForkedAtPackTier
    /\ ~DestinationRootIncludesAllPacks
    /\ IsRefreshedRoot(Parent(Parent(destination_skill_dir)))
    /\ args.skill_name \in Range(packs)
    /\ active

====
